---------------------------- MODULE Spec2Model ----------------------------
(***************************************************************************)
(* A model of the snowflake ID generator of src/snowflake.go: the          *)
(* constructor New, the method NextId with its mutex, the clock read       *)
(* timeGen and the busy wait tilNextMillis.                                 *)
(*                                                                         *)
(* Go's int64 is modelled at its width.  TLC's integers are 32 bits wide,  *)
(* so an int64 is a tuple of four 16-bit limbs, least significant first,   *)
(* in two's complement; every operator below works modulo 2^64 as Go's     *)
(* operators on int64 do.                                                   *)
(***************************************************************************)
EXTENDS Integers, Sequences, FiniteSets, TLC

VARIABLES
    clock,      \* the wall clock in milliseconds, as timeGen reads it (an int64)
    s,          \* the Snowflake objects: s[g] for each instance slot g
    mu,         \* mu[g]: the thread holding s[g].mu, or 0
    pc,         \* pc[t]: where thread t is in NextId
    on,         \* on[t]: the instance thread t is calling NextId on, or 0
    timestamp,  \* timestamp[t]: NextId's local variable timestamp
    ret,        \* ret[t]: what thread t's last NextId call returned
    newRet,     \* what the last call of New returned
    log,        \* history: the IDs returned so far, in the order of return
    kept,       \* history: one ID returned earlier, chosen arbitrarily
    burst,      \* history: a count of calls, kept by Counted or by Tallied
    budget      \* the calls of NextId still allowed, or Unbounded

vars == <<clock, s, mu, pc, on, timestamp, ret, newRet, log, kept, burst, budget>>

---------------------------------------------------------------------------
(* int64 arithmetic *)

LimbBits == 2 * 8
Limb == 2 ^ LimbBits

Zero64 == <<0, 0, 0, 0>>

\* a + b on int64; x and y name the values of a and b.
Add64(a, b) ==
    CHOOSE r \in {LET s1 == x[1] + y[1]
                      s2 == x[2] + y[2] + (s1 \div Limb)
                      s3 == x[3] + y[3] + (s2 \div Limb)
                      s4 == x[4] + y[4] + (s3 \div Limb)
                  IN  <<s1 % Limb, s2 % Limb, s3 % Limb, s4 % Limb>> :
                  x \in {a}, y \in {b}} : TRUE

Not64(a) == <<Limb - 1 - a[1], Limb - 1 - a[2], Limb - 1 - a[3], Limb - 1 - a[4]>>

Neg64(a) == Add64(Not64(a), <<1, 0, 0, 0>>)

Sub64(a, b) == Add64(a, Neg64(b))

\* The int64 of a small integer n, -2^31 < n < 2^31.
FromInt(n) ==
    IF n >= 0 THEN <<n % Limb, n \div Limb, 0, 0>>
    ELSE Neg64(<<(-n) % Limb, (-n) \div Limb, 0, 0>>)

\* a << n on int64: the bits shifted out at the top are lost, n >= 0.
Shl64(a, n) ==
    CHOOSE v \in {LET q == n \div LimbBits
                      r == n % LimbBits
                      limb(i) == IF i < 1 THEN 0 ELSE x[i]
                      out(i) == ((limb(i - q) * (2 ^ r)) % Limb)
                                + (limb(i - q - 1) \div (2 ^ (LimbBits - r)))
                  IN  <<out(1), out(2), out(3), out(4)>> : x \in {a}} : TRUE

RECURSIVE OrBits(_, _)
OrBits(x, y) ==
    IF x = 0 THEN y
    ELSE IF y = 0 THEN x
    ELSE (IF x % 2 = 1 \/ y % 2 = 1 THEN 1 ELSE 0) + 2 * OrBits(x \div 2, y \div 2)

RECURSIVE AndBits(_, _)
AndBits(x, y) ==
    IF x = 0 \/ y = 0 THEN 0
    ELSE (IF x % 2 = 1 /\ y % 2 = 1 THEN 1 ELSE 0) + 2 * AndBits(x \div 2, y \div 2)

\* a | b on int64; x and y name the values of a and b.
Or64(a, b) ==
    CHOOSE r \in {<<OrBits(x[1], y[1]), OrBits(x[2], y[2]),
                    OrBits(x[3], y[3]), OrBits(x[4], y[4])>> : x \in {a}, y \in {b}} : TRUE

\* a & b on int64; x and y name the values of a and b.
And64(a, b) ==
    CHOOSE r \in {<<AndBits(x[1], y[1]), AndBits(x[2], y[2]),
                    AndBits(x[3], y[3]), AndBits(x[4], y[4])>> : x \in {a}, y \in {b}} : TRUE

\* a >> n on the 64 bits of a read as unsigned, n >= 0.
Shr64(a, n) ==
    LET q == n \div LimbBits
        r == n % LimbBits
        limb(i) == IF i > 4 THEN 0 ELSE a[i]
        out(i) == (limb(i + q) \div (2 ^ r)) + ((limb(i + q + 1) % (2 ^ r)) * (2 ^ (LimbBits - r)))
    IN  <<out(1), out(2), out(3), out(4)>>

IsNeg64(a) == a[4] >= Limb \div 2

\* a < b as unsigned 64-bit integers.
ULt64(a, b) ==
    \/ a[4] < b[4]
    \/ a[4] = b[4] /\ a[3] < b[3]
    \/ a[4] = b[4] /\ a[3] = b[3] /\ a[2] < b[2]
    \/ a[4] = b[4] /\ a[3] = b[3] /\ a[2] = b[2] /\ a[1] < b[1]

\* a < b on int64 (signed).
Lt64(a, b) ==
    IF IsNeg64(a) # IsNeg64(b) THEN IsNeg64(a) ELSE ULt64(a, b)

Le64(a, b) == a = b \/ Lt64(a, b)

\* The int64 written in decimal digits ds, most significant first.
RECURSIVE FromDec(_)
FromDec(ds) ==
    IF ds = <<>> THEN Zero64
    ELSE LET hi == FromDec(SubSeq(ds, 1, Len(ds) - 1))
         IN  Add64(Add64(Shl64(hi, 3), Shl64(hi, 1)), FromInt(ds[Len(ds)]))

\* Bit i (0 = least significant) of an int64, and the n-bit field starting at bit lo.
BitAt(a, i) == (a[(i \div LimbBits) + 1] \div (2 ^ (i % LimbBits))) % 2

RECURSIVE Field(_, _, _)
Field(a, lo, n) ==
    IF n = 0 THEN 0 ELSE BitAt(a, lo) + 2 * Field(a, lo + 1, n - 1)

---------------------------------------------------------------------------
(* The constants of src/snowflake.go *)

twepoch == FromDec(<<1, 5, 7, 7, 8, 0, 8, 0, 0, 0, 0, 0, 0>>)

workerIdBits == 5
datacenterIdBits == 5
maxWorkerId == (2 ^ workerIdBits) - 1
maxDatacenterId == (2 ^ datacenterIdBits) - 1
sequenceBits == 12

workerIdShift == sequenceBits
datacenterIdShiftShort == sequenceBits
datacenterIdShift == sequenceBits + workerIdBits
timestampLeftShiftShort == sequenceBits + workerIdBits
timestampLeftShift == sequenceBits + workerIdBits + datacenterIdBits
sequenceMask == (2 ^ sequenceBits) - 1

---------------------------------------------------------------------------
(* Bounds of the model *)

\* The threads and the instance slots.
Threads == {1, 2}
Instances == {1, 2}

\* The calls of NextId a bounded specification allows.
MaxCalls == 4

\* A specification that explores whole runs of 4096 calls puts no bound on them.
Unbounded == 0 - 1

---------------------------------------------------------------------------
(* func New, lines 41-58 *)

\* The value a nil *Snowflake stands for, and the object New builds.
NoSnowflake ==
    [alive |-> FALSE, lastTimestamp |-> Zero64, workerId |-> 0, datacenterId |-> 0, sequence |-> 0]

\* Snowflake with lastTimestamp starting below every clock value after 1970.
SnowflakeMinusOne(workerId, datacenterId) ==
    [alive |-> TRUE, lastTimestamp |-> FromInt(0 - 1), workerId |-> workerId,
     datacenterId |-> datacenterId, sequence |-> 0]

Snowflake(workerId, datacenterId) ==
    [alive |-> TRUE, lastTimestamp |-> Zero64, workerId |-> workerId,
     datacenterId |-> datacenterId, sequence |-> 0]

\* NewResult with datacenterId compared against itself instead of maxDatacenterId.
NewResultSelfCompare(workerId, datacenterId) ==
    IF workerId < 0 \/ workerId > maxWorkerId
    THEN [obj |-> NoSnowflake, err |-> "worker Id can't be greater than %d or less than 0",
          num |-> maxWorkerId]
    ELSE IF datacenterId < 0 \/ datacenterId > datacenterId
    THEN [obj |-> NoSnowflake, err |-> "datacenter Id can't be greater than %d or less than 0",
          num |-> datacenterId]
    ELSE [obj |-> Snowflake(workerId, datacenterId), err |-> "nil", num |-> 0]

\* What New(workerId, datacenterId) returns: the object (or nil) and the error;
\* an error is the message's text and the number its %d prints.
NewResult(workerId, datacenterId) ==
    IF workerId < 0 \/ workerId > maxWorkerId
    THEN [obj |-> NoSnowflake, err |-> "worker Id can't be greater than %d or less than 0",
          num |-> maxWorkerId]
    ELSE IF datacenterId < 0 \/ datacenterId > maxDatacenterId
    THEN [obj |-> NoSnowflake, err |-> "datacenter Id can't be greater than %d or less than 0",
          num |-> datacenterId]
    ELSE [obj |-> Snowflake(workerId, datacenterId), err |-> "nil", num |-> 0]

NoNew == [called |-> FALSE, workerId |-> 0, datacenterId |-> 0, err |-> "nil", num |-> 0]

\* A call New(workerId, datacenterId) whose result the caller stores in slot g.
New(g, workerId, datacenterId) ==
    /\ ~s[g].alive
    /\ LET r == NewResult(workerId, datacenterId)
       IN  /\ s' = [s EXCEPT ![g] = r.obj]
           /\ newRet' = [called |-> TRUE, workerId |-> workerId, datacenterId |-> datacenterId,
                         err |-> r.err, num |-> r.num]
    /\ UNCHANGED <<clock, mu, pc, on, timestamp, ret, budget>>

---------------------------------------------------------------------------
(* func (s *Snowflake) NextId, lines 60-86, timeGen and tilNextMillis *)

NoRet == [kind |-> "none", val |-> Zero64, ts |-> Zero64, gen |-> 0]

\* ComposeId with the worker and datacenter fields exchanged.
ComposeIdSwapped(ts, datacenterId, workerId, sequence) ==
    Or64(Or64(Or64(Shl64(Sub64(ts, twepoch), timestampLeftShift),
                   Shl64(FromInt(workerId), datacenterIdShift)),
              Shl64(FromInt(datacenterId), workerIdShift)),
         FromInt(sequence))

\* ComposeId without the subtraction of twepoch.
ComposeIdNoEpoch(ts, datacenterId, workerId, sequence) ==
    Or64(Or64(Or64(Shl64(ts, timestampLeftShift),
                   Shl64(FromInt(datacenterId), datacenterIdShift)),
              Shl64(FromInt(workerId), workerIdShift)),
         FromInt(sequence))

\* The expression NextId returns, lines 82-85.
ComposeId(ts, datacenterId, workerId, sequence) ==
    Or64(Or64(Or64(Shl64(Sub64(ts, twepoch), timestampLeftShift),
                   Shl64(FromInt(datacenterId), datacenterIdShift)),
              Shl64(FromInt(workerId), workerIdShift)),
         FromInt(sequence))

\* NextSequence without the mask.
NextSequenceUnmasked(sequence) == sequence + 1

\* Line 73: (s.sequence + 1) & sequenceMask.
NextSequence(sequence) == AndBits(sequence + 1, sequenceMask)

\* MovedBackwards with <= for <.
MovedBackwardsOrEqual(ts, lastTimestamp) == Le64(ts, lastTimestamp)

\* MovedBackwards with the check left out.
MovedBackwardsNever(ts, lastTimestamp) == FALSE

\* Line 66: timestamp < s.lastTimestamp.
MovedBackwards(ts, lastTimestamp) == Lt64(ts, lastTimestamp)

\* StillWaiting with < for <=.
StillWaitingStrict(ts, lastTimestamp) == Lt64(ts, lastTimestamp)

\* Line 96: the loop condition of tilNextMillis.
StillWaiting(ts, lastTimestamp) == Le64(ts, lastTimestamp)

\* MutexFree for a lock that excludes nobody.
MutexNeverHeld(g) == TRUE

\* Line 68: the number of milliseconds the error message reports.
DriftReversed(ts, lastTimestamp) == Sub64(ts, lastTimestamp)

Drift(ts, lastTimestamp) == Sub64(lastTimestamp, ts)

\* Line 61: s.mu.Lock() succeeds when nobody holds the mutex.
MutexFree(g) == mu[g] = 0

\* Line 60: thread t calls NextId on instance g and reaches s.mu.Lock().
Call(t, g) ==
    /\ pc[t] = "idle"
    /\ s[g].alive
    /\ budget # 0
    /\ budget' = IF budget = Unbounded THEN Unbounded ELSE budget - 1
    /\ pc' = [pc EXCEPT ![t] = "lock"]
    /\ on' = [on EXCEPT ![t] = g]
    /\ ret' = [ret EXCEPT ![t] = NoRet]
    /\ UNCHANGED <<clock, s, mu, timestamp, newRet>>

\* Line 61: s.mu.Lock().
Lock(t) ==
    /\ pc[t] = "lock"
    /\ MutexFree(on[t])
    /\ mu' = [mu EXCEPT ![on[t]] = t]
    /\ pc' = [pc EXCEPT ![t] = "run"]
    /\ UNCHANGED <<clock, s, on, timestamp, ret, newRet, budget>>

\* Unlocked for a return that keeps the lock.
StillLocked(g) == mu

\* The deferred s.mu.Unlock() of line 62, run at each return.
Unlocked(g) == [mu EXCEPT ![g] = 0]

\* Lines 63-79: the clock read, the regression check and the sequence update.
Decide(t) ==
    /\ pc[t] = "run"
    /\ LET g == on[t]
           ts == clock
       IN  IF MovedBackwards(ts, s[g].lastTimestamp)
           THEN /\ ret' = [ret EXCEPT ![t] =
                              [kind |-> "err", val |-> Drift(ts, s[g].lastTimestamp),
                               ts |-> ts, gen |-> g]]
                /\ mu' = Unlocked(g)
                /\ pc' = [pc EXCEPT ![t] = "idle"]
                /\ on' = [on EXCEPT ![t] = 0]
                /\ UNCHANGED <<s, timestamp>>
           ELSE /\ timestamp' = [timestamp EXCEPT ![t] = ts]
                /\ IF ts = s[g].lastTimestamp
                   THEN /\ s' = [s EXCEPT ![g].sequence = NextSequence(s[g].sequence)]
                        /\ pc' = [pc EXCEPT ![t] =
                                     IF s'[g].sequence = 0 THEN "spin" ELSE "compose"]
                   ELSE /\ s' = [s EXCEPT ![g].sequence = 0]
                        /\ pc' = [pc EXCEPT ![t] = "compose"]
                /\ UNCHANGED <<mu, on, ret>>
    /\ UNCHANGED <<clock, newRet, budget>>

\* Lines 75 and 94-100: one clock read of tilNextMillis(s.lastTimestamp); the
\* argument is the value timestamp had when the loop was entered.
TilNextMillis(t) ==
    /\ pc[t] = "spin"
    /\ IF StillWaiting(clock, timestamp[t])
       THEN UNCHANGED <<pc, timestamp>>
       ELSE /\ timestamp' = [timestamp EXCEPT ![t] = clock]
            /\ pc' = [pc EXCEPT ![t] = "compose"]
    /\ UNCHANGED <<clock, s, mu, on, ret, newRet, budget>>

\* Lines 81-85 and the deferred unlock: the write of lastTimestamp and the return.
Compose(t) ==
    /\ pc[t] = "compose"
    /\ LET g == on[t]
       IN  /\ s' = [s EXCEPT ![g].lastTimestamp = timestamp[t]]
           /\ ret' = [ret EXCEPT ![t] =
                         [kind |-> "ok",
                          val |-> ComposeId(timestamp[t], s[g].datacenterId,
                                            s[g].workerId, s[g].sequence),
                          ts |-> timestamp[t], gen |-> g]]
           /\ mu' = Unlocked(g)
    /\ pc' = [pc EXCEPT ![t] = "idle"]
    /\ on' = [on EXCEPT ![t] = 0]
    /\ timestamp' = [timestamp EXCEPT ![t] = Zero64]
    /\ UNCHANGED <<clock, newRet, budget>>

\* The clock moves forward to c.
Tick(c) == Lt64(clock, c) /\ clock' = c /\ UNCHANGED <<s, mu, pc, on, timestamp, ret, newRet, budget>>

\* func timeGen, lines 89-91: time.Now() is whatever the system clock says; the
\* clock is set by the environment.
SetClock(c) ==
    /\ c # clock
    /\ clock' = c
    /\ UNCHANGED <<s, mu, pc, on, timestamp, ret, newRet, budget>>

---------------------------------------------------------------------------
(* History variables: what the calls returned.  They record, and never
   influence, the program's variables. *)

\* Thread t returns an ID in this step.
Returns(t) == pc[t] = "compose" /\ pc'[t] = "idle"

NoBurst == [live |-> FALSE, n |-> 0, ms |-> Zero64]

\* log: every ID returned, with the thread that got it.
Logged ==
    log' = IF \E t \in Threads : Returns(t)
           THEN LET t == CHOOSE u \in Threads : Returns(u)
                IN  Append(log, [val |-> ret'[t].val, ts |-> ret'[t].ts,
                                 gen |-> ret'[t].gen, by |-> t])
           ELSE log

\* kept: at most once, an ID is kept at the moment it is returned, if its sequence
\* component is one of those in seqs.
Keeping(seqs) ==
    \/ kept' = kept
    \/ /\ kept.kind = "none"
       /\ \E t \in Threads :
             /\ Returns(t)
             /\ s[on[t]].sequence \in seqs
             /\ kept' = ret'[t]

\* burst: the number of calls made so far on a fresh generator, as long as all of
\* them read the same millisecond ms at line 63.
Counted ==
    burst' = IF \E t \in Threads : pc[t] = "run" /\ pc'[t] # "run"
             THEN IF burst.live /\ (burst.n = 0 \/ burst.ms = clock) /\ burst.n <= sequenceMask + 1
                  THEN [live |-> TRUE, n |-> burst.n + 1, ms |-> clock]
                  ELSE NoBurst
             ELSE burst

---------------------------------------------------------------------------
(* Clock values *)

\* 2^n as an int64.
Pow64(n) == Shl64(FromInt(1), n)

\* The first clock value whose offset from twepoch does not fit in 41 bits, and
\* the first whose offset shifted left by 22 bits is 2^64.
EpochPlus41 == Add64(twepoch, Pow64(63 - timestampLeftShift))
EpochPlus42 == Add64(twepoch, Pow64(64 - timestampLeftShift))

\* Whether a clock value keeps bit 63 of the ID clear: twepoch <= ts < twepoch + 2^41.
InRange41(ts) == Le64(twepoch, ts) /\ Lt64(ts, EpochPlus41)

AfterEpoch == Add64(twepoch, FromInt(1))

TypeInit ==
    /\ s = [g \in Instances |-> NoSnowflake]
    /\ mu = [g \in Instances |-> 0]
    /\ pc = [t \in Threads |-> "idle"]
    /\ on = [t \in Threads |-> 0]
    /\ timestamp = [t \in Threads |-> Zero64]
    /\ ret = [t \in Threads |-> NoRet]
    /\ newRet = NoNew
    /\ log = <<>>
    /\ kept = NoRet
    /\ burst = [live |-> TRUE, n |-> 0, ms |-> Zero64]

---------------------------------------------------------------------------
(* Spec: one instance called by two threads, a bounded number of calls, every
   returned ID logged. *)

Clocks == {FromInt(0 - 1), Zero64, twepoch, AfterEpoch, EpochPlus42}

Init ==
    /\ TypeInit
    /\ clock \in Clocks
    /\ budget = MaxCalls

Next ==
    \/ \E w \in {0 - 1, 21}, d \in {10, 32} : New(1, w, d) /\ UNCHANGED <<log, kept, burst>>
    \/ \E t \in Threads : Call(t, 1) /\ UNCHANGED <<log, kept, burst>>
    \/ \E t \in Threads : Lock(t) /\ UNCHANGED <<log, kept, burst>>
    \/ \E t \in Threads : Decide(t) /\ UNCHANGED <<log, kept, burst>>
    \/ \E t \in Threads : Compose(t) /\ Logged /\ UNCHANGED <<kept, burst>>
    \/ \E c \in Clocks : SetClock(c) /\ UNCHANGED <<log, kept, burst>>

Spec == Init /\ [][Next]_vars

---------------------------------------------------------------------------
(* SpecDeep: one instance called by one thread without a bound on the calls, so
   that the sequence runs through all its 4096 values and rolls over. *)

\* The last clock value whose offset from twepoch fits in 41 bits.
LastIn41 == Sub64(EpochPlus41, FromInt(1))

DeepClocks == {Zero64, twepoch, LastIn41, EpochPlus41}

DeepIds == {<<21, 10>>, <<0, 31>>}

InitDeep ==
    /\ TypeInit
    /\ clock \in DeepClocks
    /\ budget = Unbounded

NextDeep ==
    \/ \E id \in DeepIds : New(1, id[1], id[2]) /\ UNCHANGED <<log, kept, burst>>
    \/ Call(1, 1) /\ UNCHANGED <<log, kept, burst>>
    \/ Lock(1) /\ UNCHANGED <<log, kept, burst>>
    \/ Decide(1) /\ Counted /\ UNCHANGED <<log, kept>>
    \/ TilNextMillis(1) /\ UNCHANGED <<log, kept, burst>>
    \/ Compose(1) /\ UNCHANGED <<log, kept, burst>>
    \/ \E c \in DeepClocks : SetClock(c) /\ UNCHANGED <<log, kept, burst>>

SpecDeep == InitDeep /\ [][NextDeep]_vars

---------------------------------------------------------------------------
(* SpecPairs: as SpecDeep, and one of the IDs returned is kept, to be compared
   with every ID returned after it. *)

PairClocks == {Zero64, twepoch, AfterEpoch}

\* The sequence components of the IDs that may be kept: the first ones and the
\* last ones of a millisecond.
KeptEdge == 1
KeptSeqs == (0 .. KeptEdge) \cup ((sequenceMask - KeptEdge) .. sequenceMask)

InitPairs ==
    /\ TypeInit
    /\ clock \in PairClocks
    /\ budget = Unbounded

NextPairs ==
    \/ New(1, 21, 10) /\ UNCHANGED <<log, kept, burst>>
    \/ Call(1, 1) /\ UNCHANGED <<log, kept, burst>>
    \/ Lock(1) /\ UNCHANGED <<log, kept, burst>>
    \/ Decide(1) /\ UNCHANGED <<log, kept, burst>>
    \/ TilNextMillis(1) /\ UNCHANGED <<log, kept, burst>>
    \/ Compose(1) /\ Keeping(KeptSeqs) /\ UNCHANGED <<log, burst>>
    \/ \E c \in PairClocks : SetClock(c) /\ UNCHANGED <<log, kept, burst>>

SpecPairs == InitPairs /\ [][NextPairs]_vars

---------------------------------------------------------------------------
(* SpecNew: calls of New with arguments in and around the valid range. *)

\* How far outside [0, 31] the arguments of New go.
ArgSlack == 1
NewArgs == (0 - ArgSlack) .. (maxWorkerId + ArgSlack)

InitNew ==
    /\ TypeInit
    /\ clock = twepoch
    /\ budget = 0

NextNew ==
    \E w \in NewArgs, d \in NewArgs : New(1, w, d) /\ UNCHANGED <<log, kept, burst>>

SpecNew == InitNew /\ [][NextNew]_vars

---------------------------------------------------------------------------
(* SpecTwo: two instances, each with its own identity, called by two threads. *)

TwoClocks == {twepoch, AfterEpoch, EpochPlus42}
TwoIds == {0, 31}

\* The calls of NextId SpecTwo allows.
MaxCallsTwo == 3

InitTwo ==
    /\ TypeInit
    /\ clock \in TwoClocks
    /\ budget = MaxCallsTwo

NextTwo ==
    \/ \E g \in Instances, w \in TwoIds, d \in TwoIds :
          New(g, w, d) /\ UNCHANGED <<log, kept, burst>>
    \/ \E t \in Threads, g \in Instances : Call(t, g) /\ UNCHANGED <<log, kept, burst>>
    \/ \E t \in Threads : Lock(t) /\ UNCHANGED <<log, kept, burst>>
    \/ \E t \in Threads : Decide(t) /\ UNCHANGED <<log, kept, burst>>
    \/ \E t \in Threads : Compose(t) /\ UNCHANGED <<log, kept, burst>>
    \/ \E c \in TwoClocks : SetClock(c) /\ UNCHANGED <<log, kept, burst>>

SpecTwo == InitTwo /\ [][NextTwo]_vars

---------------------------------------------------------------------------
(* SpecMono: a generator made by New(0, 0), called by one thread without a bound
   on the calls, under a clock that never goes back. *)

MonoClocks == {FromInt(0 - 1), Zero64, twepoch, AfterEpoch}

InitMono ==
    /\ TypeInit
    /\ clock \in MonoClocks
    /\ budget = Unbounded

NextMono ==
    \/ New(1, 0, 0) /\ UNCHANGED <<log, kept, burst>>
    \/ Call(1, 1) /\ UNCHANGED <<log, kept, burst>>
    \/ Lock(1) /\ UNCHANGED <<log, kept, burst>>
    \/ Decide(1) /\ UNCHANGED <<log, kept, burst>>
    \/ TilNextMillis(1) /\ UNCHANGED <<log, kept, burst>>
    \/ Compose(1) /\ UNCHANGED <<log, kept, burst>>
    \/ \E c \in MonoClocks : Tick(c) /\ UNCHANGED <<log, kept, burst>>

SpecMono == InitMono /\ [][NextMono]_vars

---------------------------------------------------------------------------
(* SpecBoth: one generator and two threads under any clock. Thread 1 calls without
   a bound, so the sequence rolls over; thread 2 makes one call, at any moment of
   thread 1's run, and no call starts once that call has returned. *)

BothClocks == {twepoch, AfterEpoch}

GuestPending == ret[2].kind = "none"

InitBoth ==
    /\ TypeInit
    /\ clock \in BothClocks
    /\ budget = Unbounded

NextBoth ==
    \/ New(1, 21, 10) /\ UNCHANGED <<log, kept, burst>>
    \/ \E t \in Threads : GuestPending /\ Call(t, 1) /\ UNCHANGED <<log, kept, burst>>
    \/ \E t \in Threads : Lock(t) /\ UNCHANGED <<log, kept, burst>>
    \/ \E t \in Threads : Decide(t) /\ UNCHANGED <<log, kept, burst>>
    \/ \E t \in Threads : TilNextMillis(t) /\ UNCHANGED <<log, kept, burst>>
    \/ \E t \in Threads : Compose(t) /\ UNCHANGED <<log, kept, burst>>
    \/ \E c \in BothClocks : SetClock(c) /\ UNCHANGED <<log, kept, burst>>

SpecBoth == InitBoth /\ [][NextBoth]_vars

\* The fields of an ID: bits 11-0, 16-12, 21-17 and 62-22.
SeqField(id) == Field(id, 0, 12)
WorkerField(id) == Field(id, 12, 5)
DatacenterField(id) == Field(id, 17, 5)
Mask41 == Sub64(Pow64(41), FromInt(1))
TsField(id) == And64(Shr64(id, 22), Mask41)

\* The timestamp component of an ID made from clock value ms.
TsOf(ms) == And64(Sub64(ms, twepoch), Mask41)

---------------------------------------------------------------------------
(* SpecTally: SpecDeep for one identity, with the returned IDs counted by timestamp
   component. *)

\* burst, kept another way: n counts IDs returned so far that carry the timestamp
\* component of the last one: the IDs made from its clock value ms and, when the
\* clock value before had the same component and had used all 4096 sequence values,
\* the IDs of that one too; live says that all the IDs counted were made from ms.
Tallied ==
    burst' = IF \E t \in Threads : Returns(t)
             THEN LET t == CHOOSE u \in Threads : Returns(u)
                      id == ret'[t]
                  IN  IF burst.n > 0 /\ id.ts = burst.ms
                      THEN [burst EXCEPT !.n = burst.n + 1]
                      ELSE IF burst.n > sequenceMask /\ TsField(id.val) = TsOf(burst.ms)
                           THEN [live |-> FALSE, n |-> burst.n + 1, ms |-> id.ts]
                           ELSE [live |-> TRUE, n |-> 1, ms |-> id.ts]
             ELSE burst

NextTally ==
    \/ New(1, 21, 10) /\ UNCHANGED <<log, kept, burst>>
    \/ Call(1, 1) /\ UNCHANGED <<log, kept, burst>>
    \/ Lock(1) /\ UNCHANGED <<log, kept, burst>>
    \/ Decide(1) /\ UNCHANGED <<log, kept, burst>>
    \/ TilNextMillis(1) /\ UNCHANGED <<log, kept, burst>>
    \/ Compose(1) /\ Tallied /\ UNCHANGED <<log, kept>>
    \/ \E c \in DeepClocks : SetClock(c) /\ UNCHANGED <<log, kept, burst>>

SpecTally == InitDeep /\ [][NextTally]_vars

---------------------------------------------------------------------------
(* SpecLive: the two threads of SpecBoth under a clock that never goes back and
   goes on while it can, with threads that take their steps and a lock that does
   not pass a waiting thread over for ever (sync.Mutex hands the lock to a waiter
   that has waited for 1 ms). *)

LiveClocks == {twepoch, AfterEpoch}

InitLive ==
    /\ TypeInit
    /\ clock \in LiveClocks
    /\ budget = Unbounded

\* The steps of SpecLive, which keeps no history.
Quiet(A) == A /\ UNCHANGED <<log, kept, burst>>

ClockAdvances == \E c \in LiveClocks : Tick(c)

NextLive ==
    \/ Quiet(New(1, 21, 10))
    \/ \E t \in Threads : GuestPending /\ Quiet(Call(t, 1))
    \/ \E t \in Threads : Quiet(Lock(t))
    \/ \E t \in Threads : Quiet(Decide(t))
    \/ \E t \in Threads : Quiet(TilNextMillis(t))
    \/ \E t \in Threads : Quiet(Compose(t))
    \/ Quiet(ClockAdvances)

Fairness ==
    /\ \A t \in Threads : SF_vars(Quiet(Lock(t)))
    /\ \A t \in Threads : WF_vars(Quiet(Decide(t)))
    /\ \A t \in Threads : WF_vars(Quiet(TilNextMillis(t)))
    /\ \A t \in Threads : WF_vars(Quiet(Compose(t)))
    /\ WF_vars(Quiet(ClockAdvances))

SpecLive == InitLive /\ [][NextLive]_vars /\ Fairness

---------------------------------------------------------------------------
(* The properties *)


\* Thread t's last call of NextId has returned and t has not called again.
Done(t) == pc[t] = "idle" /\ ret[t].kind # "none"

\* Two clock values less than 2^42 ms apart.
WithinSpan(a, b) == ULt64(Sub64(b, a), Pow64(42)) \/ ULt64(Sub64(a, b), Pow64(42))

\* A clock value ts with twepoch <= ts < twepoch + 2^42.
InRange42(ts) == Le64(twepoch, ts) /\ Lt64(ts, EpochPlus42)

(* C1, as stated: the IDs returned by one instance to its threads are pairwise
   distinct, whatever the interleaving. *)
C1_AllDistinct ==
    \A i, j \in DOMAIN log : i < j => log[i].val # log[j].val

(* C1, amended: the IDs returned by one instance to its threads are pairwise
   distinct, whatever the interleaving, when the clock values of the two calls are
   less than 2^42 ms apart. *)
C1_DistinctWithinSpan ==
    \A i, j \in DOMAIN log :
        i < j /\ WithinSpan(log[i].ts, log[j].ts) => log[i].val # log[j].val

\* Both threads got IDs, two of them in the same millisecond.
C1_Witness ==
    /\ Len(log) >= 3
    /\ \E i, j \in DOMAIN log : i < j /\ log[i].by # log[j].by /\ log[i].ts = log[j].ts

(* C2, as stated: an ID returned after another one is greater than it as an
   unsigned 64-bit integer, for every clock value the generator accepts. *)
C2_Increasing ==
    [][\A t \in Threads :
          Returns(t) /\ kept.kind = "ok" => ULt64(kept.val, ret'[t].val)]_vars

(* C2, amended: an ID returned after another one is greater than it as an unsigned
   64-bit integer, when both calls read clock values ts with
   twepoch <= ts < twepoch + 2^42. *)
C2_IncreasingInRange ==
    [][\A t \in Threads :
          Returns(t) /\ kept.kind = "ok" /\ InRange42(kept.ts) /\ InRange42(ret'[t].ts)
              => ULt64(kept.val, ret'[t].val)]_vars

\* The last ID of one millisecond was kept, and the first ID of the next has been returned.
C2_Witness ==
    /\ kept.kind = "ok" /\ kept.ts = twepoch /\ SeqField(kept.val) = 4095
    /\ Done(1) /\ ret[1].kind = "ok" /\ ret[1].ts = AfterEpoch /\ SeqField(ret[1].val) = 0

(* C3: a call that reads a clock value below lastTimestamp returns an error that
   carries lastTimestamp - timestamp and leaves the instance as it was; a call that
   reads a clock value at or above lastTimestamp does not return an error. *)
C3_RegressionRefused ==
    [][\A t \in Threads :
          pc[t] = "run" /\ pc'[t] # "run" =>
              IF Lt64(clock, s[on[t]].lastTimestamp)
              THEN /\ ret'[t].kind = "err"
                   /\ ret'[t].val = Sub64(s[on[t]].lastTimestamp, clock)
                   /\ s' = s
              ELSE /\ pc'[t] = "compose"
                   /\ ret'[t].kind = "none"]_vars

\* After an ID was returned the clock went back one millisecond, and a call failed.
C3_Witness ==
    /\ Len(log) >= 1
    /\ \E t \in Threads : Done(t) /\ ret[t].kind = "err" /\ ret[t].val = FromInt(1)
    /\ s[1].lastTimestamp = AfterEpoch

(* C4: New succeeds, and returns the object with the given identity, if and only
   if both arguments are in [0, 31]; otherwise it returns an error and no object. *)
C4_NewIffInRange ==
    newRet.called =>
        LET valid == /\ 0 <= newRet.workerId /\ newRet.workerId <= 31
                     /\ 0 <= newRet.datacenterId /\ newRet.datacenterId <= 31
        IN  /\ valid <=> newRet.err = "nil"
            /\ valid <=> s[1].alive
            /\ valid => /\ s[1].workerId = newRet.workerId
                        /\ s[1].datacenterId = newRet.datacenterId

\* New was called with a valid workerId and datacenterId = 32, and refused.
C4_Witness ==
    newRet.called /\ newRet.workerId = 31 /\ newRet.datacenterId = 32 /\ newRet.err # "nil"

(* C5: when New fails, the number in its error message is the bound, 31. *)
C5_MessageStatesBound ==
    newRet.called /\ newRet.err # "nil" => newRet.num = 31

(* C6, as stated: on a fresh generator, the first 4096 calls that all read the same
   millisecond return the sequence components 0, 1, ..., 4095 in order and one
   timestamp component; the 4097th returns a timestamp component at least 1 greater. *)
C6_Burst ==
    \A t \in Threads :
        burst.live /\ Done(t) =>
            /\ ret[t].kind = "ok"
            /\ burst.n <= 4096 =>
                  /\ SeqField(ret[t].val) = burst.n - 1
                  /\ TsField(ret[t].val) = TsOf(burst.ms)
            /\ burst.n = 4097 => ULt64(TsOf(burst.ms), TsField(ret[t].val))

(* C6, amended: on a fresh generator, the first 4096 calls that all read the same
   millisecond ms > 0 return the sequence components 0, 1, ..., 4095 in order and
   one timestamp component; the 4097th returns sequence component 0 and a clock
   value greater than ms, and its timestamp component is at least 1 greater when
   ms and that clock value are in [twepoch, twepoch + 2^41). *)
C6_BurstAfterZero ==
    \A t \in Threads :
        burst.live /\ Done(t) /\ Lt64(Zero64, burst.ms) =>
            /\ ret[t].kind = "ok"
            /\ burst.n <= 4096 =>
                  /\ SeqField(ret[t].val) = burst.n - 1
                  /\ TsField(ret[t].val) = TsOf(burst.ms)
            /\ burst.n = 4097 =>
                  /\ SeqField(ret[t].val) = 0
                  /\ Lt64(burst.ms, ret[t].ts)
                  /\ InRange41(burst.ms) /\ InRange41(ret[t].ts)
                         => ULt64(TsOf(burst.ms), TsField(ret[t].val))

\* The 4097th call of a burst at twepoch has returned, with a later timestamp.
C6_Witness ==
    /\ burst.live /\ burst.n = 4097 /\ burst.ms = twepoch
    /\ Done(1) /\ ret[1].kind = "ok" /\ ret[1].ts = LastIn41

(* C7: two instances with different (workerId, datacenterId) pairs never return
   the same ID. *)
C7_DistinctAcrossInstances ==
    \A t, u \in Threads :
        /\ ret[t].kind = "ok" /\ ret[u].kind = "ok"
        /\ ret[t].gen # ret[u].gen
        /\ <<s[ret[t].gen].workerId, s[ret[t].gen].datacenterId>>
               # <<s[ret[u].gen].workerId, s[ret[u].gen].datacenterId>>
        => ret[t].val # ret[u].val

\* Two instances that differ in one identity field returned IDs with the same
\* sequence component whose clock values are 2^42 ms apart.
C7_Witness ==
    /\ ret[1].kind = "ok" /\ ret[2].kind = "ok"
    /\ ret[1].gen = 1 /\ ret[2].gen = 2
    /\ s[1].workerId = 31 /\ s[1].datacenterId = 0
    /\ s[2].workerId = 0 /\ s[2].datacenterId = 31
    /\ ret[1].ts = twepoch /\ ret[2].ts = EpochPlus42
    /\ SeqField(ret[1].val) = SeqField(ret[2].val)

(* C8: bits 16-12 of every ID returned are the workerId and bits 21-17 the
   datacenterId given to New. *)
C8_Decode ==
    \A t \in Threads :
        ret[t].kind = "ok" =>
            /\ WorkerField(ret[t].val) = newRet.workerId
            /\ DatacenterField(ret[t].val) = newRet.datacenterId

\* An ID with sequence component 4095 and a clock value before twepoch was returned.
C8_Witness ==
    /\ Done(1) /\ ret[1].kind = "ok" /\ ret[1].ts = Zero64
    /\ SeqField(ret[1].val) = 4095
    /\ newRet.workerId = 0 /\ newRet.datacenterId = 31

(* C9: workerId and datacenterId stay in [0, 31] and sequence in [0, 4095], and no
   step makes lastTimestamp smaller. *)
C9_Ranges ==
    \A g \in Instances :
        s[g].alive =>
            /\ 0 <= s[g].workerId /\ s[g].workerId <= 31
            /\ 0 <= s[g].datacenterId /\ s[g].datacenterId <= 31
            /\ 0 <= s[g].sequence /\ s[g].sequence <= 4095

C9_Invariant ==
    [][/\ C9_Ranges
       /\ C9_Ranges'
       /\ \A g \in Instances : Le64(s[g].lastTimestamp, s'[g].lastTimestamp)]_vars

\* The sequence is at 4095 and a call has just failed because the clock went back.
C9_Witness ==
    /\ s[1].sequence = 4095 /\ s[1].lastTimestamp = EpochPlus41
    /\ Done(1) /\ ret[1].kind = "err" /\ clock = twepoch

(* C10, as stated: every ID returned has bit 63 clear. *)
C10_NonNegative ==
    \A t \in Threads : ret[t].kind = "ok" => ~IsNeg64(ret[t].val)

(* C10, amended: every ID returned by a call that read a clock value ts with
   twepoch <= ts < twepoch + 2^41 has bit 63 clear. *)
C10_NonNegativeInRange ==
    \A t \in Threads :
        ret[t].kind = "ok" /\ InRange41(ret[t].ts) => ~IsNeg64(ret[t].val)

\* An ID was returned for the last clock value in range.
C10_Witness ==
    Done(1) /\ ret[1].kind = "ok" /\ ret[1].ts = LastIn41 /\ SeqField(ret[1].val) = 4095

\* Thread t's call leaves lines 63-79 in this step, and what it read.
Decides(t) == pc[t] = "run" /\ pc'[t] # "run"
ErrNow(t) == ret'[t].kind = "err" /\ ret[t].kind # "err"

(* C11, as stated: a call returns an error exactly when the clock value it reads at
   line 63 is below lastTimestamp; and under a clock that never goes back no call
   on a generator made by New(0, 0) returns an error. *)
C11_NeverFails ==
    [][\A t \in Threads :
          /\ Decides(t) => (ErrNow(t) <=> Lt64(clock, s[on[t]].lastTimestamp))
          /\ ErrNow(t) => Decides(t)
          /\ ret'[t].kind # "err"]_vars

(* C11, amended: a call returns an error exactly when the clock value it reads at
   line 63 is below lastTimestamp; and under a clock that never goes back no call
   on a generator made by New(0, 0) that reads a clock value >= 0 returns an error. *)
C11_FailsOnlyOnRegression ==
    [][\A t \in Threads :
          /\ Decides(t) => (ErrNow(t) <=> Lt64(clock, s[on[t]].lastTimestamp))
          /\ ErrNow(t) => Decides(t)
          /\ Decides(t) /\ Le64(Zero64, clock) => ret'[t].kind # "err"]_vars

\* A run of more than 4096 calls without an error: the sequence rolled over at
\* twepoch and runs again.
C11_Witness ==
    /\ s[1].alive /\ s[1].workerId = 0 /\ s[1].datacenterId = 0
    /\ s[1].lastTimestamp = AfterEpoch /\ s[1].sequence = 4095
    /\ Done(1) /\ ret[1].kind = "ok"

\* Thread t is between Lock (line 61) and the deferred Unlock (line 62) on g.
Inside(t, g) == on[t] = g /\ pc[t] \in {"run", "spin", "compose"}

(* C12: the whole of NextId runs under the generator's one lock: at no time are two
   threads between Lock and return on the same generator, the lock is held by the
   thread that is, and lastTimestamp and sequence are written by that thread only. *)
C12_OneInside ==
    [][\A g \in Instances :
          /\ \A t, u \in Threads : Inside(t, g) /\ Inside(u, g) => t = u
          /\ \A t \in Threads : Inside(t, g) => mu[g] = t
          /\ s[g].alive /\ s'[g] # s[g] =>
                \E t \in Threads : Inside(t, g) /\ mu[g] = t /\ pc'[t] # pc[t]]_vars

\* Thread 1 waits in tilNextMillis with the lock while thread 2 stands at Lock.
C12_Witness ==
    /\ pc[1] = "spin" /\ mu[1] = 1
    /\ pc[2] = "lock" /\ on[2] = 1

\* The pair (timestamp component, sequence component) of ID a is at or below that of b.
PairLe(a, b) ==
    \/ ULt64(TsField(a), TsField(b))
    \/ TsField(a) = TsField(b) /\ SeqField(a) <= SeqField(b)

(* C13, as stated: in the order in which the calls got the lock, the pairs
   (timestamp component, sequence component) of the returned IDs never go down, for
   every clock value the generator accepts. *)
C13_PairsOrdered ==
    \A i, j \in DOMAIN log : i < j => PairLe(log[i].val, log[j].val)

(* C13, amended: in the order in which the calls got the lock, the pairs
   (timestamp component, sequence component) of the returned IDs never go down, when
   the calls read clock values ts with twepoch <= ts < twepoch + 2^41; the sequence
   component goes back to 0 only when the timestamp component goes up. *)
C13_PairsOrderedInRange ==
    \A i, j \in DOMAIN log :
        i < j /\ InRange41(log[i].ts) /\ InRange41(log[j].ts) =>
            /\ PairLe(log[i].val, log[j].val)
            /\ SeqField(log[j].val) < SeqField(log[i].val) =>
                  ULt64(TsField(log[i].val), TsField(log[j].val))

\* Two threads got IDs of one millisecond, then one of them the first ID of the next.
C13_Witness ==
    /\ Len(log) >= 3
    /\ log[1].ts = twepoch /\ log[2].ts = twepoch /\ log[3].ts = AfterEpoch
    /\ log[1].by # log[2].by
    /\ SeqField(log[2].val) = 1 /\ SeqField(log[3].val) = 0

\* a * k mod 2^64 by long multiplication, for 0 <= k < 2^15.
Times(a, k) ==
    LET p1 == a[1] * k
        p2 == a[2] * k + (p1 \div Limb)
        p3 == a[3] * k + (p2 \div Limb)
        p4 == a[4] * k + (p3 \div Limb)
    IN  <<p1 % Limb, p2 % Limb, p3 % Limb, p4 % Limb>>

(* C14: the value a call returns is ((T - twepoch) << 22) | (datacenterId << 17) |
   (workerId << 12) | S, with T the lastTimestamp and S the sequence right after the
   call (no other call has run since); for 0 <= T - twepoch < 2^41 that is
   (T - twepoch) * 2^22 + datacenterId * 2^17 + workerId * 2^12 + S, the product
   taken as (T - twepoch) * 2^11 * 2^11. *)
C14_Layout ==
    \A t \in Threads :
        Done(t) /\ ret[t].kind = "ok" =>
            LET g == ret[t].gen
                T == s[g].lastTimestamp
                S == s[g].sequence
                off == Sub64(T, twepoch)
                dc == s[g].datacenterId
                wk == s[g].workerId
            IN  /\ ret[t].val =
                      Or64(Or64(Or64(Shl64(off, 22), Shl64(FromInt(dc), 17)),
                                Shl64(FromInt(wk), 12)),
                           FromInt(S))
                /\ InRange41(T) =>
                      ret[t].val =
                          Add64(Add64(Add64(Times(Times(off, 2 ^ 11), 2 ^ 11),
                                            FromInt(dc * (2 ^ 17))),
                                      FromInt(wk * (2 ^ 12))),
                                FromInt(S))

\* The last ID of the last millisecond of the 41-bit range has been returned.
C14_Witness ==
    /\ Done(1) /\ ret[1].kind = "ok" /\ ret[1].ts = LastIn41
    /\ s[1].lastTimestamp = LastIn41 /\ s[1].sequence = 4095
    /\ s[1].workerId = 21 /\ s[1].datacenterId = 10

(* C15: in a call that does not fail, a clock value above lastTimestamp sets sequence
   to 0 and a clock value equal to it sets sequence to (sequence + 1) mod 4096; when
   that is 0 the call reads the clock again until it is above the old lastTimestamp,
   and the value read then becomes lastTimestamp and the timestamp of the ID. *)
C15_SequenceStep ==
    [][\A t \in Threads :
          LET g == on[t]
          IN  /\ Decides(t) /\ ~ErrNow(t) /\ Lt64(s[g].lastTimestamp, clock) =>
                    /\ s'[g].sequence = 0
                    /\ pc'[t] = "compose" /\ timestamp'[t] = clock
              /\ Decides(t) /\ ~ErrNow(t) /\ clock = s[g].lastTimestamp =>
                    /\ s'[g].sequence = (s[g].sequence + 1) % 4096
                    /\ s'[g].sequence = 0 => pc'[t] = "spin"
                    /\ s'[g].sequence # 0 => pc'[t] = "compose" /\ timestamp'[t] = clock
              /\ Decides(t) => s'[g].lastTimestamp = s[g].lastTimestamp
              /\ pc[t] = "spin" =>
                    /\ s' = s
                    /\ pc'[t] # "spin" =>
                          /\ pc'[t] = "compose"
                          /\ Lt64(s[g].lastTimestamp, clock) /\ timestamp'[t] = clock
              /\ Returns(t) =>
                    /\ s'[g].lastTimestamp = timestamp[t]
                    /\ s'[g].sequence = s[g].sequence
                    /\ ret'[t].ts = timestamp[t]]_vars

\* The sequence went from 4095 to 0 and the call waits; the clock has moved on.
C15_Witness ==
    /\ pc[1] = "spin" /\ s[1].sequence = 0
    /\ s[1].lastTimestamp = twepoch /\ clock = LastIn41

ClockSpent ==
    \E u \in Threads :
        pc[u] = "spin" /\ \A c \in LiveClocks : Le64(c, timestamp[u])

(* C17: under a clock that never goes back and goes on, and a fair lock, every call
   of NextId that was started returns, unless it waits in tilNextMillis for a clock
   value above the last one the model has. *)
C17_CallsReturn ==
    \A t \in Threads : (pc[t] # "idle") ~> (pc[t] = "idle" \/ ClockSpent)

\* Thread 1 waits in tilNextMillis with the lock, thread 2 waits for the lock, and
\* the clock has moved on.
C17_Witness ==
    /\ pc[1] = "spin" /\ timestamp[1] = twepoch /\ clock = AfterEpoch
    /\ pc[2] = "lock" /\ mu[1] = 1

(* C18: while a call waits in tilNextMillis and the clock is at or below
   lastTimestamp, the call stays there with the lock, lastTimestamp and sequence
   keep their values, and no other thread's call on the generator gets past Lock
   or returns. *)
C18_StalledClockBlocks ==
    [][\A t \in Threads :
          LET g == on[t]
          IN  pc[t] = "spin" /\ Le64(clock, s[g].lastTimestamp) =>
                  /\ pc'[t] = "spin" /\ on'[t] = g
                  /\ mu[g] = t /\ mu'[g] = t
                  /\ s'[g] = s[g]
                  /\ \A u \in Threads \ {t} :
                        /\ ~Inside(u, g) /\ ~Inside(u, g)'
                        /\ ret'[u] = ret[u] \/ ret'[u] = NoRet
                        /\ pc[u] = "lock" => pc'[u] = "lock"]_vars

\* Thread 1 used up the sequence values of twepoch + 1 and waits; the clock is back
\* at twepoch and thread 2 stands at Lock.
C18_Witness ==
    /\ pc[1] = "spin" /\ s[1].lastTimestamp = AfterEpoch /\ clock = twepoch
    /\ pc[2] = "lock" /\ on[2] = 1 /\ mu[1] = 1

(* C19: the generator New returns has lastTimestamp 0, sequence 0 and the workerId
   and datacenterId it was given, and no step of a NextId call, failed or waiting
   ones included, changes workerId or datacenterId. *)
C19_IdentityKept ==
    [][\A g \in Instances :
          /\ ~s[g].alive /\ s'[g].alive =>
                /\ s'[g].lastTimestamp = Zero64 /\ s'[g].sequence = 0
                /\ s'[g].workerId = newRet'.workerId
                /\ s'[g].datacenterId = newRet'.datacenterId
          /\ s[g].alive =>
                /\ s'[g].alive
                /\ s'[g].workerId = s[g].workerId
                /\ s'[g].datacenterId = s[g].datacenterId
                /\ newRet' = newRet]_vars

\* The generator New(21, 10) returned has issued IDs up to the last millisecond of
\* the 41-bit range, had a call fail, and still has its identity.
C19_Witness ==
    /\ newRet.called /\ newRet.workerId = 21 /\ newRet.datacenterId = 10
    /\ s[1].alive /\ s[1].workerId = 21 /\ s[1].datacenterId = 10
    /\ s[1].lastTimestamp = LastIn41 /\ s[1].sequence = 4095
    /\ Done(1) /\ ret[1].kind = "err"

(* C20: the lock is released on every way out of NextId, the error return
   included: the lock is held only by a thread that is inside a call, it is free
   whenever no call is inside, and a thread that stands at Lock finds the lock free
   or held by a thread that has a step to take. *)
C20_LockReleased ==
    \A g \in Instances :
        /\ mu[g] # 0 => mu[g] \in Threads /\ Inside(mu[g], g)
        /\ (\A t \in Threads : ~Inside(t, g)) => MutexFree(g)
        /\ \A t \in Threads :
              Done(t) /\ ret[t].gen = g => mu[g] # t
        /\ \A t \in Threads :
              pc[t] = "lock" /\ on[t] = g =>
                  \/ MutexFree(g)
                  \/ \E u \in Threads \ {t} : Inside(u, g) /\ mu[g] = u

\* Thread 1's call failed on a clock that went back, and thread 2 has the lock.
C20_Witness ==
    /\ Done(1) /\ ret[1].kind = "err"
    /\ pc[2] = "run" /\ mu[1] = 2

=============================================================================
